---- MODULE Spec2Model ----
(***************************************************************************)
(* Model of src/src/lib.rs: the reference-counted shared connection        *)
(* (CONN_COUNT, Connection::new, Drop for Connection) and the event        *)
(* decoding layer (TryFrom<spnav_event> for Event, lib::spnav_wait_event,  *)
(* lib::spnav_poll_event), run by several threads over one transport.      *)
(***************************************************************************)
EXTENDS Integers, Sequences, FiniteSets, TLC

(* ---------------------------- bounds ---------------------------------- *)
\* number of application threads
NThreads == 2
\* Connection::new calls made in one run, over all threads
MaxNew == 3
\* raw records the transport may hold unread
MaxPending == 1

(* ------------------------ program constants --------------------------- *)
SPNAV_EVENT_ANY == 0
SPNAV_EVENT_MOTION == 1
SPNAV_EVENT_BUTTON == 2

Threads == 1..NThreads
NoThread == 0

\* descriptors the transport may hand out for a session
Fds == {3, 4}
NoFd == -1

\* tags the transport may put in a record: the three known values, one
\* positive and one negative value outside them
Tags == {-1, SPNAV_EVENT_ANY, SPNAV_EVENT_MOTION, SPNAV_EVENT_BUTTON, 3}

\* payload words of a record (the storage both union views read)
Payloads == { <<-1, 2, 3, -4, 5, -6, 7>>,
              << 0, 1, 0,  0, 0,  0, 0>>,
              << 2, 0, 1,  1, 1,  1, 1>> }

(* ------------------------- raw records -------------------------------- *)
\* libspnav::spnav_event: a union whose views share the tag and the payload
RawRecord(tag, w) ==
  [ type_  |-> tag,
    motion |-> [x |-> w[1], y |-> w[2], z |-> w[3],
                rx |-> w[4], ry |-> w[5], rz |-> w[6], period |-> w[7]],
    button |-> [press |-> w[1], bnum |-> w[2]] ]

RawRecords == { RawRecord(tag, w) : tag \in Tags, w \in Payloads }

\* the records that arrive while the connection lifecycle is exercised: one
\* that decodes and one that does not
LifecycleRecords ==
  { RawRecord(SPNAV_EVENT_MOTION, <<-1, 2, 3, -4, 5, -6, 7>>),
    RawRecord(3, <<0, 1, 0, 0, 0, 0, 0>>) }

\* the record wait/poll hand to the transport: only the tag is initialised
BlankRecord == RawRecord(SPNAV_EVENT_ANY, <<0, 0, 0, 0, 0, 0, 0>>)

(* ------------------------- result values ------------------------------ *)
Ok(v) == [k |-> "Ok", v |-> v]
Err == [k |-> "Err", v |-> <<>>]
Some(v) == [k |-> "Some", v |-> v]
None == [k |-> "None", v |-> <<>>]
NotCalled == [k |-> "NotCalled", v |-> <<>>]

(* --------------------------- Event Codec ------------------------------ *)
\* From<spnav_event_motion> for MotionEvent
MotionEventFrom(event) ==
  [ variant |-> "Motion",
    x |-> event.x, y |-> event.y, z |-> event.z,
    rx |-> event.rx, ry |-> event.ry, rz |-> event.rz,
    period |-> event.period ]

\* mutant: only a positive press field counts as pressed
ButtonEventFromPositive(event) ==
  [ variant |-> "Button", press |-> (event.press > 0), bnum |-> event.bnum ]

\* From<spnav_event_button> for ButtonEvent
ButtonEventFrom(event) ==
  [ variant |-> "Button", press |-> (event.press # 0), bnum |-> event.bnum ]

\* mutant: an unknown tag is coerced to the Motion variant
TryFromDefaults(event) ==
  CASE event.type_ = SPNAV_EVENT_BUTTON -> Ok(ButtonEventFrom(event.button))
    [] OTHER -> Ok(MotionEventFrom(event.motion))

\* TryFrom<spnav_event> for Event
TryFrom(event) ==
  CASE event.type_ = SPNAV_EVENT_MOTION -> Ok(MotionEventFrom(event.motion))
    [] event.type_ = SPNAV_EVENT_BUTTON -> Ok(ButtonEventFrom(event.button))
    [] OTHER -> Err

\* Result::ok
ResultOk(r) == IF r.k = "Ok" THEN Some(r.v) ELSE None

(* ----------------------------- state ---------------------------------- *)
VARIABLES
  count,      \* CONN_COUNT: the value the mutex guards
  lock,       \* the thread holding the CONN_COUNT guard, or NoThread
  poisoned,   \* the mutex was held by a thread that panicked
  sessOpen,   \* transport: the physical session is open
  sessFd,     \* transport: descriptor of the open session, or NoFd
  pending,    \* transport: raw records received and not yet read
  pc,         \* where each thread is
  held,       \* the Connection values each thread owns (their fd fields)
  calls,      \* Connection::new calls each thread has made
  aborted,    \* the process aborted (a panic while unwinding)
  last,       \* the last poll/wait call: what the transport gave, what came back
  hist        \* transport calls made so far and how the run unfolded

vars == <<count, lock, poisoned, sessOpen, sessFd, pending, pc, held, calls,
          aborted, last, hist>>

registry == <<count, lock, poisoned>>
transport == <<sessOpen, sessFd, pending>>

Init ==
  /\ count = 0
  /\ lock = NoThread
  /\ poisoned = FALSE
  /\ sessOpen = FALSE
  /\ sessFd = NoFd
  /\ pending = <<>>
  /\ pc = [t \in Threads |-> "idle"]
  /\ held = [t \in Threads |-> <<>>]
  /\ calls = [t \in Threads |-> 0]
  /\ aborted = FALSE
  /\ last = [op |-> "none", delivered |-> FALSE, t |-> 0,
             event |-> BlankRecord, decoded |-> NotCalled, ret |-> NotCalled]
  /\ hist = [opens |-> 0, closes |-> 0, failed |-> FALSE,
             dropBegun |-> FALSE, newAfterDrop |-> FALSE,
             closeFailed |-> FALSE]

(* ----------------------- transport wrappers --------------------------- *)
\* lib::spnav_open: r is what libspnav::spnav_open returned
spnav_open(r) == IF r = -1 THEN Err ELSE Ok(<<>>)

\* mutant: the return value of libspnav::spnav_close is not looked at
spnav_close_unchecked(r) == Ok(<<>>)

\* lib::spnav_close: r is what libspnav::spnav_close returned
spnav_close(r) == IF r = -1 THEN Err ELSE Ok(<<>>)

\* lib::spnav_fd: fd is what libspnav::spnav_fd returned
spnav_fd(fd) == IF fd = NoFd THEN Err ELSE Ok(fd)

\* what libspnav::spnav_fd may return: the session's descriptor, or -1 on
\* failure; always -1 when no session is open
FdReturns == IF sessOpen THEN {sessFd, NoFd} ELSE {NoFd}

(* ------------------------- mutex and panics --------------------------- *)
\* a thread panics: it stops; Connections it still owns are dropped while
\* unwinding, and their drop panics again on the poisoned lock, which aborts
Panicked(t, heldNow) ==
  /\ pc' = [pc EXCEPT ![t] = "panicked"]
  /\ aborted' = (aborted \/ heldNow[t] # <<>>)

\* the guard is dropped at the end of the function
Unlock == lock' = NoThread

\* mutant: the count is not guarded, a thread never waits for the lock
LockNotExclusive == TRUE

\* CONN_COUNT.lock(): the mutex is free
LockFree == lock = NoThread

(* -------------------------- Connection::new --------------------------- *)
RECURSIVE CallsUpTo(_)
CallsUpTo(n) == IF n = 0 THEN 0 ELSE calls[n] + CallsUpTo(n - 1)

\* Connection::new calls made so far
CallsMade == CallsUpTo(NThreads)

\* mutant: a poisoned lock is taken all the same (the PoisonError is unwrapped
\* into its guard)
NewLockIgnoresPoison(t) ==
  /\ ~aborted
  /\ pc[t] = "idle"
  /\ CallsMade < MaxNew
  /\ LockFree
  /\ calls' = [calls EXCEPT ![t] = @ + 1]
  /\ hist' = [hist EXCEPT !.newAfterDrop = @ \/ hist.dropBegun]
  /\ lock' = t
  /\ pc' = [pc EXCEPT ![t] = "new_test"]
  /\ UNCHANGED <<count, poisoned, transport, held, aborted, last>>

\* let mut count = CONN_COUNT.lock().expect("to lock");
NewLock(t) ==
  /\ ~aborted
  /\ pc[t] = "idle"
  /\ CallsMade < MaxNew
  /\ LockFree
  /\ calls' = [calls EXCEPT ![t] = @ + 1]
  /\ hist' = [hist EXCEPT !.newAfterDrop = @ \/ hist.dropBegun]
  /\ IF poisoned
       THEN /\ Panicked(t, held)
            /\ UNCHANGED lock
       ELSE /\ lock' = t
            /\ pc' = [pc EXCEPT ![t] = "new_test"]
            /\ UNCHANGED aborted
  /\ UNCHANGED <<count, poisoned, transport, held, last>>

\* mutant: the count > 0 branch forgets its increment
NewTestNoIncrement(t) ==
  /\ ~aborted
  /\ pc[t] = "new_test"
  /\ IF count > 0
       THEN /\ count' = count
            /\ pc' = [pc EXCEPT ![t] = "new_fd"]
       ELSE /\ count' = 1
            /\ pc' = [pc EXCEPT ![t] = "new_open"]
  /\ UNCHANGED <<lock, poisoned, transport, held, calls, aborted, last, hist>>

\* mutant: the test is off by one (*count > 1)
NewTestOffByOne(t) ==
  /\ ~aborted
  /\ pc[t] = "new_test"
  /\ IF count > 1
       THEN /\ count' = count + 1
            /\ pc' = [pc EXCEPT ![t] = "new_fd"]
       ELSE /\ count' = 1
            /\ pc' = [pc EXCEPT ![t] = "new_open"]
  /\ UNCHANGED <<lock, poisoned, transport, held, calls, aborted, last, hist>>

\* if *count > 0 { *count += 1; .. } else { *count = 1; .. }
NewTest(t) ==
  /\ ~aborted
  /\ pc[t] = "new_test"
  /\ IF count > 0
       THEN /\ count' = count + 1
            /\ pc' = [pc EXCEPT ![t] = "new_fd"]
       ELSE /\ count' = 1
            /\ pc' = [pc EXCEPT ![t] = "new_open"]
  /\ UNCHANGED <<lock, poisoned, transport, held, calls, aborted, last, hist>>

\* mutant: the guard is released once the session is open, before the
\* descriptor is fetched
NewOpenReleasesLock(t) ==
  /\ ~aborted
  /\ pc[t] = "new_open"
  /\ \E r \in {-1, 0} : \E fd \in Fds :
       /\ IF r = -1
            THEN UNCHANGED <<sessOpen, sessFd>>
            ELSE sessOpen' = TRUE /\ sessFd' = fd
       /\ IF spnav_open(r).k = "Err"
            THEN pc' = [pc EXCEPT ![t] = "idle"]
            ELSE pc' = [pc EXCEPT ![t] = "new_fd"]
       /\ Unlock
       /\ hist' = [hist EXCEPT !.opens = @ + 1,
                               !.failed = @ \/ (r = -1)]
  /\ UNCHANGED <<count, poisoned, pending, held, calls, aborted, last>>

\* lib::spnav_open()?;
NewOpen(t) ==
  /\ ~aborted
  /\ pc[t] = "new_open"
  /\ \E r \in {-1, 0} : \E fd \in Fds :
       /\ IF r = -1
            THEN UNCHANGED <<sessOpen, sessFd>>
            ELSE sessOpen' = TRUE /\ sessFd' = fd
       /\ IF spnav_open(r).k = "Err"
            THEN /\ pc' = [pc EXCEPT ![t] = "idle"]
                 /\ Unlock
            ELSE /\ pc' = [pc EXCEPT ![t] = "new_fd"]
                 /\ UNCHANGED lock
       /\ hist' = [hist EXCEPT !.opens = @ + 1,
                               !.failed = @ \/ (r = -1)]
  /\ UNCHANGED <<count, poisoned, pending, held, calls, aborted, last>>

\* mutant: a failed descriptor fetch takes the increment back
NewFdRollsBack(t) ==
  /\ ~aborted
  /\ pc[t] = "new_fd"
  /\ \E fd \in FdReturns :
       /\ IF spnav_fd(fd).k = "Err"
            THEN UNCHANGED held /\ count' = count - 1
            ELSE /\ held' = [held EXCEPT ![t] = Append(@, spnav_fd(fd).v)]
                 /\ UNCHANGED count
       /\ hist' = [hist EXCEPT !.failed = @ \/ (fd = NoFd)]
  /\ pc' = [pc EXCEPT ![t] = "idle"]
  /\ Unlock
  /\ UNCHANGED <<poisoned, transport, calls, aborted, last>>

\* Ok(Connection { fd: lib::spnav_fd()? })
NewFd(t) ==
  /\ ~aborted
  /\ pc[t] = "new_fd"
  /\ \E fd \in FdReturns :
       /\ IF spnav_fd(fd).k = "Err"
            THEN UNCHANGED held
            ELSE held' = [held EXCEPT ![t] = Append(@, spnav_fd(fd).v)]
       /\ hist' = [hist EXCEPT !.failed = @ \/ (fd = NoFd)]
  /\ pc' = [pc EXCEPT ![t] = "idle"]
  /\ Unlock
  /\ UNCHANGED <<count, poisoned, transport, calls, aborted, last>>

(* ----------------------- Drop for Connection -------------------------- *)
Remove(s, i) == SubSeq(s, 1, i - 1) \o SubSeq(s, i + 1, Len(s))

\* let mut count = CONN_COUNT.lock().expect("to lock");
DropLock(t) ==
  /\ ~aborted
  /\ pc[t] = "idle"
  /\ LockFree
  /\ \E i \in 1..Len(held[t]) :
       /\ held' = [held EXCEPT ![t] = Remove(@, i)]
       /\ IF poisoned
            THEN /\ Panicked(t, held')
                 /\ UNCHANGED lock
            ELSE /\ lock' = t
                 /\ pc' = [pc EXCEPT ![t] = "drop_test"]
                 /\ UNCHANGED aborted
  /\ hist' = [hist EXCEPT !.dropBegun = TRUE]
  /\ UNCHANGED <<count, poisoned, transport, calls, last>>

\* mutant: every drop takes the count to 0 and closes (*count >= 1)
DropTestClosesEarly(t) ==
  /\ ~aborted
  /\ pc[t] = "drop_test"
  /\ IF count >= 1
       THEN /\ count' = 0
            /\ pc' = [pc EXCEPT ![t] = "drop_close"]
            /\ UNCHANGED lock
       ELSE /\ count' = count - 1
            /\ pc' = [pc EXCEPT ![t] = "idle"]
            /\ Unlock
  /\ UNCHANGED <<poisoned, transport, held, calls, aborted, last, hist>>

\* if *count == 1 { *count = 0; .. } else { *count -= 1; }
DropTest(t) ==
  /\ ~aborted
  /\ pc[t] = "drop_test"
  /\ IF count = 1
       THEN /\ count' = 0
            /\ pc' = [pc EXCEPT ![t] = "drop_close"]
            /\ UNCHANGED lock
       ELSE /\ count' = count - 1
            /\ pc' = [pc EXCEPT ![t] = "idle"]
            /\ Unlock
  /\ UNCHANGED <<poisoned, transport, held, calls, aborted, last, hist>>

\* lib::spnav_close().expect("to close");
DropClose(t) ==
  /\ ~aborted
  /\ pc[t] = "drop_close"
  /\ \E r \in {-1, 0} : \E stillOpen \in {sessOpen, FALSE} :
       /\ IF r = -1
            THEN /\ sessOpen' = stillOpen
                 /\ sessFd' = IF stillOpen THEN sessFd ELSE NoFd
                 /\ pending' = IF stillOpen THEN pending ELSE <<>>
            ELSE /\ sessOpen' = FALSE
                 /\ sessFd' = NoFd
                 /\ pending' = <<>>
       /\ IF spnav_close(r).k = "Err"
            THEN /\ Panicked(t, held)
                 /\ poisoned' = TRUE
            ELSE /\ pc' = [pc EXCEPT ![t] = "idle"]
                 /\ UNCHANGED <<poisoned, aborted>>
       /\ hist' = [hist EXCEPT !.closes = @ + 1,
                               !.failed = @ \/ (r = -1),
                               !.closeFailed = @ \/ (r = -1)]
  /\ Unlock
  /\ UNCHANGED <<count, held, calls, last>>

(* --------------------------- transport -------------------------------- *)
\* a raw record reaches the open session
Arrive(records) ==
  /\ ~aborted
  /\ sessOpen
  /\ Len(pending) < MaxPending
  /\ \E rec \in records : pending' = Append(pending, rec)
  /\ UNCHANGED <<registry, sessOpen, sessFd, pc, held, calls, aborted, last, hist>>

\* what libspnav::spnav_poll_event / spnav_wait_event return for a record
\* they deliver: the event type (a record tagged 0 may also be reported as 1)
DeliveredReturns(rec) == IF rec.type_ = 0 THEN {0, 1} ELSE {rec.type_}

(* ------------------------ wait and poll ------------------------------- *)
\* mutant: the test of the transport's return value is inverted
wait_event_inverted(t, event) == IF t # 0 THEN Err ELSE TryFrom(event)

\* lib::spnav_wait_event: t and event are what the transport call left
spnav_wait_event(t, event) == IF t = 0 THEN Err ELSE TryFrom(event)

\* mutant: the decode result is unwrapped instead of turned into an Option
poll_event_unwraps(t, event) == IF t = 0 THEN None ELSE Some(TryFrom(event).v)

\* lib::spnav_poll_event: t and event are what the transport call left
spnav_poll_event(t, event) == IF t = 0 THEN None ELSE ResultOk(TryFrom(event))

\* the call to the codec inside wait/poll, if it is reached
Decoded(t, event) == IF t = 0 THEN NotCalled ELSE TryFrom(event)

\* mutant: poll hands out the head record and leaves it pending
PollPeeks(th) ==
  /\ ~aborted
  /\ pc[th] = "idle"
  /\ held[th] # <<>>
  /\ IF pending = <<>>
       THEN last' = [op |-> "poll", delivered |-> FALSE, t |-> 0,
                     event |-> BlankRecord,
                     decoded |-> Decoded(0, BlankRecord),
                     ret |-> spnav_poll_event(0, BlankRecord)]
       ELSE \E t \in DeliveredReturns(Head(pending)) :
              last' = [op |-> "poll", delivered |-> TRUE, t |-> t,
                       event |-> Head(pending),
                       decoded |-> Decoded(t, Head(pending)),
                       ret |-> spnav_poll_event(t, Head(pending))]
  /\ UNCHANGED <<registry, transport, pc, held, calls, aborted, hist>>

\* Connection::poll, on a Connection the thread owns
Poll(th) ==
  /\ ~aborted
  /\ pc[th] = "idle"
  /\ held[th] # <<>>
  /\ IF pending = <<>>
       THEN /\ last' = [op |-> "poll", delivered |-> FALSE, t |-> 0,
                        event |-> BlankRecord,
                        decoded |-> Decoded(0, BlankRecord),
                        ret |-> spnav_poll_event(0, BlankRecord)]
            /\ UNCHANGED pending
       ELSE /\ \E t \in DeliveredReturns(Head(pending)) :
                 last' = [op |-> "poll", delivered |-> TRUE, t |-> t,
                          event |-> Head(pending),
                          decoded |-> Decoded(t, Head(pending)),
                          ret |-> spnav_poll_event(t, Head(pending))]
            /\ pending' = Tail(pending)
  /\ UNCHANGED <<registry, sessOpen, sessFd, pc, held, calls, aborted, hist>>

\* mutant: wait takes the CONN_COUNT guard and blocks with it
WaitCallHoldsLock(th) ==
  /\ ~aborted
  /\ pc[th] = "idle"
  /\ held[th] # <<>>
  /\ LockFree
  /\ lock' = th
  /\ pc' = [pc EXCEPT ![th] = "wait"]
  /\ UNCHANGED <<count, poisoned, transport, held, calls, aborted, last, hist>>

\* Connection::wait is entered: the thread blocks in the transport
WaitCall(th) ==
  /\ ~aborted
  /\ pc[th] = "idle"
  /\ held[th] # <<>>
  /\ pc' = [pc EXCEPT ![th] = "wait"]
  /\ UNCHANGED <<registry, transport, held, calls, aborted, last, hist>>

\* the transport wait delivers the next record
WaitDeliver(th) ==
  /\ ~aborted
  /\ pc[th] = "wait"
  /\ pending # <<>>
  /\ \E t \in DeliveredReturns(Head(pending)) :
       last' = [op |-> "wait", delivered |-> TRUE, t |-> t,
                event |-> Head(pending),
                decoded |-> Decoded(t, Head(pending)),
                ret |-> spnav_wait_event(t, Head(pending))]
  /\ pending' = Tail(pending)
  /\ pc' = [pc EXCEPT ![th] = "idle"]
  /\ UNCHANGED <<registry, sessOpen, sessFd, held, calls, aborted, hist>>

\* mutant: a failed wait gives the session up (closes it, count to 0)
WaitFailClosesSession(th) ==
  /\ ~aborted
  /\ pc[th] = "wait"
  /\ last' = [op |-> "wait", delivered |-> FALSE, t |-> 0,
              event |-> BlankRecord,
              decoded |-> Decoded(0, BlankRecord),
              ret |-> spnav_wait_event(0, BlankRecord)]
  /\ pc' = [pc EXCEPT ![th] = "idle"]
  /\ count' = 0
  /\ sessOpen' = FALSE
  /\ UNCHANGED <<lock, poisoned, sessFd, pending, held, calls, aborted, hist>>

\* the transport wait fails: it returns 0 and leaves the record untouched
WaitFail(th) ==
  /\ ~aborted
  /\ pc[th] = "wait"
  /\ last' = [op |-> "wait", delivered |-> FALSE, t |-> 0,
              event |-> BlankRecord,
              decoded |-> Decoded(0, BlankRecord),
              ret |-> spnav_wait_event(0, BlankRecord)]
  /\ pc' = [pc EXCEPT ![th] = "idle"]
  /\ UNCHANGED <<registry, transport, held, calls, aborted, hist>>

Next ==
  \/ \E t \in Threads :
       \/ NewLock(t)
       \/ NewTest(t)
       \/ NewOpen(t)
       \/ NewFd(t)
       \/ DropLock(t)
       \/ DropTest(t)
       \/ DropClose(t)
       \/ Poll(t)
       \/ WaitCall(t)
       \/ WaitDeliver(t)
       \/ WaitFail(t)
  \/ Arrive(LifecycleRecords)

Spec == Init /\ [][Next]_vars

(* ------------------- the codec on every raw record -------------------- *)
\* every thread owns one Connection of one open session, nothing pending
InitCodec ==
  /\ count = NThreads
  /\ lock = NoThread
  /\ poisoned = FALSE
  /\ sessOpen = TRUE
  /\ sessFd \in Fds
  /\ pending = <<>>
  /\ pc = [t \in Threads |-> "idle"]
  /\ held = [t \in Threads |-> <<sessFd>>]
  /\ calls = [t \in Threads |-> 1]
  /\ aborted = FALSE
  /\ last = [op |-> "none", delivered |-> FALSE, t |-> 0,
             event |-> BlankRecord, decoded |-> NotCalled, ret |-> NotCalled]
  /\ hist = [opens |-> 1, closes |-> 0, failed |-> FALSE,
             dropBegun |-> FALSE, newAfterDrop |-> FALSE,
             closeFailed |-> FALSE]

NextCodec ==
  \/ \E t \in Threads :
       \/ Poll(t)
       \/ WaitCall(t)
       \/ WaitDeliver(t)
       \/ WaitFail(t)
  \/ Arrive(RawRecords)

SpecCodec == InitCodec /\ [][NextCodec]_vars

(* ======================= properties of the code ======================= *)
\* thread t takes a step that leaves position p
Leaves(t, p) == pc[t] = p /\ pc'[t] # p

\* no Connection value is live and no call is in progress
RunDone == \A t \in Threads : pc[t] = "idle" /\ held[t] = <<>>

\* the threads that called Connection::new called it once
EachOnce == (\A t \in Threads : calls[t] <= 1) /\ (\E t \in Threads : calls[t] = 1)

\* no Connection value is live
NoLiveHandle == \A t \in Threads : held[t] = <<>>

\* the steps of new and drop made under the CONN_COUNT guard
InCritical(t) ==
  pc[t] \in {"new_test", "new_open", "new_fd", "drop_test", "drop_close"}

(* ------------------------------- C1 ----------------------------------- *)
\* C1 as stated: when N threads each called Connection::new once and dropped
\* the Connection, every transport call succeeding, the transport open was
\* called exactly once and the transport close exactly once, whatever the
\* interleaving.
C1_OnceInEveryInterleaving ==
  (RunDone /\ EachOnce /\ ~hist.failed)
    => (hist.opens = 1 /\ hist.closes = 1)

\* C1 amended: the same, for the runs in which no Connection::new is made
\* after a drop has begun (all constructions precede all destructions).
C1_OnceWhenNewsPrecedeDrops ==
  (RunDone /\ EachOnce /\ ~hist.failed /\ ~hist.newAfterDrop)
    => (hist.opens = 1 /\ hist.closes = 1)

\* every thread made its new, then every thread dropped, with nothing failing
C1_Witness ==
  /\ RunDone
  /\ \A t \in Threads : calls[t] = 1
  /\ ~hist.failed /\ ~hist.newAfterDrop
  /\ hist.opens = 1 /\ hist.closes = 1

(* ------------------------------- C2 ----------------------------------- *)
\* C2: whenever no thread holds the registry lock, the physical session is
\* open if and only if CONN_COUNT > 0.
C2_OpenIffCounted ==
  (lock = NoThread) => (sessOpen <=> count > 0)

(* ------------------------------- C3 ----------------------------------- *)
\* C3: a Connection::new whose transport open fails returns with the count
\* at 0, and a Connection::new that finds no open session calls the
\* transport open.
C3_FailedOpenLeavesZero ==
  [][\A t \in Threads :
       /\ (pc[t] = "new_open" /\ pc'[t] = "idle") => count' = 0
       /\ (Leaves(t, "new_test") /\ ~sessOpen) => pc'[t] = "new_open"]_vars

(* ------------------------------- C4 ----------------------------------- *)
\* C4: the session is torn down exactly when the last handle disappears: no
\* state outside a new or drop call has an open session and no live handle.
C4_NoSessionWithoutHandle ==
  (lock = NoThread /\ NoLiveHandle) => ~sessOpen

(* ------------------------------- C5 ----------------------------------- *)
\* C5: the count test and the open/close call of one new or drop are never
\* interleaved with those of another: at most one thread is between its
\* lock and its return, it is the lock's holder, and the transport open is
\* only ever called with no session open.
C5_MutualExclusion ==
  /\ \A t1, t2 \in Threads : (InCritical(t1) /\ InCritical(t2)) => t1 = t2
  /\ \A t \in Threads : InCritical(t) <=> lock = t
  /\ \A t \in Threads : pc[t] = "new_open" => ~sessOpen

\* one thread is between its count update and its descriptor fetch, holding
\* the lock, while the other thread, whose own new failed, is outside
C5_Witness ==
  \E t1, t2 \in Threads :
    /\ t1 # t2
    /\ pc[t1] = "new_fd" /\ lock = t1
    /\ pc[t2] = "idle" /\ calls[t2] >= 1
    /\ hist.failed

(* ------------------------------- C6 ----------------------------------- *)
\* C6: a drop with count > 1 decrements the count by 1 and calls no close; a
\* drop with count = 1 sets it to 0 and calls the transport close; a new
\* with count > 0 increments it by 1 and calls no open.
C6_CountSteps ==
  [][\A t \in Threads :
       /\ (Leaves(t, "drop_test") /\ count > 1)
            => (count' = count - 1 /\ pc'[t] = "idle"
                /\ hist'.closes = hist.closes)
       /\ (Leaves(t, "drop_test") /\ count = 1)
            => (count' = 0 /\ pc'[t] = "drop_close")
       /\ Leaves(t, "drop_close")
            => (hist'.closes = hist.closes + 1 /\ count' = 0)
       /\ (Leaves(t, "new_test") /\ count > 0)
            => (count' = count + 1 /\ pc'[t] = "new_fd"
                /\ hist'.opens = hist.opens)
       /\ Leaves(t, "new_fd")
            => (count' = count /\ hist'.opens = hist.opens)]_vars

\* from count = 2 the first drop left 1 without a close, and the second has
\* set 0 and stands at its close call
C6_Witness ==
  /\ \E t \in Threads : pc[t] = "drop_close"
  /\ count = 0
  /\ CallsMade = 2 /\ NoLiveHandle
  /\ hist.opens = 1 /\ hist.closes = 0 /\ ~hist.failed

(* ------------------------------- C7 ----------------------------------- *)
\* C7: when new has opened the session and the descriptor fetch fails, new
\* returns without a Connection, the session stays open and the count keeps
\* the increment of that call.
C7_NoRollback ==
  [][\A t \in Threads :
       (pc[t] = "new_fd" /\ pc'[t] = "idle" /\ held'[t] = held[t])
         => /\ count' = count /\ count >= 1
            /\ sessOpen' = sessOpen
            /\ hist'.closes = hist.closes
            /\ (count = 1 => sessOpen')]_vars

\* the first new opened the session, failed to fetch the descriptor and
\* returned: the session is open, the count is 1 and there is no Connection
C7_Witness ==
  /\ lock = NoThread
  /\ CallsMade = 1 /\ NoLiveHandle
  /\ hist.opens = 1 /\ hist.failed
  /\ sessOpen /\ count = 1

(* ------------------------------- C8 ----------------------------------- *)
\* C8: wait returns Ok(event) exactly when the transport wait did not return
\* 0 and left a record tagged Motion or Button, the event being of that
\* variant; in every other case it returns Err.
C8_WaitResult ==
  last.op = "wait" =>
    /\ last.ret.k \in {"Ok", "Err"}
    /\ last.ret.k = "Ok"
         <=> (last.t # 0 /\ last.event.type_ \in {SPNAV_EVENT_MOTION,
                                                  SPNAV_EVENT_BUTTON})
    /\ last.ret.k = "Ok" =>
         last.ret.v.variant = (IF last.event.type_ = SPNAV_EVENT_MOTION
                                 THEN "Motion" ELSE "Button")

\* a record with an unrecognized tag was received by wait, which returned Err
C8_Witness ==
  /\ last.op = "wait" /\ last.delivered /\ last.t # 0
  /\ last.event.type_ = 3
  /\ last.ret = Err

(* ------------------------------- C9 ----------------------------------- *)
\* a step of Connection::poll: no thread moves, and the call either takes the
\* head of the pending records or reports on an empty stream
PollStep ==
  /\ pc' = pc
  /\ last'.op = "poll"
  /\ Len(pending') <= Len(pending)
  /\ (last' # last \/ pending' # pending)

\* C9: poll returns Some(event) exactly when a record was pending and its
\* tag is Motion or Button, the event being of that variant; otherwise it
\* returns None, and the pending record, if any, is consumed.
C9_PollResult ==
  [][PollStep =>
       /\ last'.ret.k \in {"Some", "None"}
       /\ last'.ret.k = "Some"
            <=> (pending # <<>> /\ Head(pending).type_ \in {SPNAV_EVENT_MOTION,
                                                           SPNAV_EVENT_BUTTON})
       /\ last'.ret.k = "Some" =>
            last'.ret.v.variant = (IF Head(pending).type_ = SPNAV_EVENT_MOTION
                                     THEN "Motion" ELSE "Button")
       /\ pending # <<>> => pending' = Tail(pending)
       /\ pending = <<>> => pending' = pending]_vars

\* a pending record with an unrecognized tag was taken by poll, which
\* returned None
C9_Witness ==
  /\ last.op = "poll" /\ last.delivered /\ last.t # 0
  /\ last.event.type_ = -1
  /\ last.ret = None
  /\ pending = <<>>

(* ------------------------------- C10 ---------------------------------- *)
\* C10: Event::try_from gives Ok(Motion) for tag 1, Ok(Button) for tag 2 and
\* Err for every other tag, the Any sentinel 0 included.
C10_DecodeTotal ==
  last.decoded # NotCalled =>
    /\ last.event.type_ = 1
         => (last.decoded.k = "Ok" /\ last.decoded.v.variant = "Motion")
    /\ last.event.type_ = 2
         => (last.decoded.k = "Ok" /\ last.decoded.v.variant = "Button")
    /\ last.event.type_ \notin {1, 2} => last.decoded = Err

\* a record tagged with the Any sentinel went through the codec
C10_Witness ==
  /\ last.decoded = Err
  /\ last.event.type_ = SPNAV_EVENT_ANY
  /\ last.event \in RawRecords

(* ------------------------------- C11 ---------------------------------- *)
\* a thread enters Connection::wait, or returns from it
WaitStep ==
  \E t \in Threads :
    \/ pc[t] = "idle" /\ pc'[t] = "wait"
    \/ pc[t] = "wait" /\ pc'[t] # "wait"

\* C11: a step of poll or wait leaves the count, the lock, the session's
\* open/closed state and descriptor and the Connection values as they were;
\* at most the head of the pending records is consumed.
C11_EventsLeaveRegistry ==
  [][(PollStep \/ WaitStep) =>
       /\ count' = count /\ lock' = lock /\ poisoned' = poisoned
       /\ sessOpen' = sessOpen /\ sessFd' = sessFd
       /\ held' = held /\ hist' = hist
       /\ \/ pending' = pending
          \/ pending # <<>> /\ pending' = Tail(pending)]_vars

\* a wait returned an event while two Connections shared the open session
C11_Witness ==
  /\ last.op = "wait" /\ last.ret.k = "Ok"
  /\ count = 2 /\ sessOpen /\ lock = NoThread
  /\ \A t \in Threads : Len(held[t]) = 1

(* ------------------------------- C12 ---------------------------------- *)
\* C12: a thread blocked in wait does not hold the registry lock; while it is
\* blocked the lock is held only by a thread inside new or drop, whose next
\* step can be taken, a free lock can be taken by another thread's new or
\* drop, and another thread's poll can be taken.
C12_WaitHoldsNoLock ==
  \A t \in Threads : pc[t] = "wait" =>
    /\ lock # t
    /\ lock # NoThread => InCritical(lock)
    /\ \A u \in Threads \ {t} :
         /\ InCritical(u) =>
              ENABLED (NewTest(u) \/ NewOpen(u) \/ NewFd(u)
                         \/ DropTest(u) \/ DropClose(u))
         /\ (pc[u] = "idle" /\ held[u] # <<>>) => ENABLED Poll(u)
         /\ (pc[u] = "idle" /\ held[u] # <<>> /\ lock = NoThread)
              => ENABLED DropLock(u)
         /\ (pc[u] = "idle" /\ CallsMade < MaxNew /\ lock = NoThread)
              => ENABLED NewLock(u)

\* one thread is blocked in wait with nothing pending while another thread
\* is inside its drop
C12_Witness ==
  \E t, u \in Threads :
    /\ t # u
    /\ pc[t] = "wait" /\ pending = <<>>
    /\ pc[u] = "drop_test" /\ lock = u

(* ------------------------------- C13 ---------------------------------- *)
\* a step in which a wait or poll call hands the transport's record to its
\* caller
TakeStep ==
  /\ last'.delivered
  /\ hist' = hist
  /\ Len(pending') <= Len(pending)
  /\ (last' # last \/ pending' # pending)

C14_CloseFailurePanics ==
  [][\A t \in Threads :
       Leaves(t, "drop_close") =>
         /\ hist'.closes = hist.closes + 1
         /\ hist'.closeFailed => pc'[t] = "panicked"
         /\ pc'[t] = "idle" => (~hist'.closeFailed /\ ~sessOpen')]_vars

\* the close of the last Connection failed and the dropping thread panicked
C14_Witness ==
  /\ hist.closeFailed /\ hist.closes = 1
  /\ \E t \in Threads : pc[t] = "panicked" /\ calls[t] = 1
  /\ CallsMade = 1 /\ NoLiveHandle

(* ------------------------------- C15 ---------------------------------- *)
\* C15: a record tagged Button decodes to Event::Button whose press flag is
\* TRUE exactly when the raw press field is not 0 (negative or positive) and
\* whose bnum is the raw button index.
C15_ButtonDecode ==
  (last.decoded # NotCalled /\ last.event.type_ = SPNAV_EVENT_BUTTON) =>
    /\ last.decoded.k = "Ok"
    /\ last.decoded.v.variant = "Button"
    /\ last.decoded.v.press \in BOOLEAN
    /\ last.decoded.v.press <=> (last.event.button.press < 0
                                   \/ last.event.button.press > 0)
    /\ last.decoded.v.bnum = last.event.button.bnum

\* a Button record with a negative press field was decoded as pressed
C15_Witness ==
  /\ last.decoded.k = "Ok"
  /\ last.event.type_ = SPNAV_EVENT_BUTTON
  /\ last.event.button.press = -1
  /\ last.decoded.v.press = TRUE
  /\ last.decoded.v.bnum = 2

(* ------------------------------- C16 ---------------------------------- *)
\* C16 as stated, in its final clause: in a successful new the descriptor is
\* fetched with the registry lock not held (released before the fetch).
C16_FetchAfterRelease ==
  [][\A t \in Threads :
       (pc[t] = "new_fd" /\ held'[t] # held[t]) => lock # t]_vars

\* C16 amended: new takes the lock, then updates the count (to 1 from 0,
\* else by +1), then opens the session if the count was 0, then fetches the
\* descriptor, all under the lock, which is released when new returns.
C16_FetchUnderLock ==
  [][\A t \in Threads :
       /\ (pc[t] = "idle" /\ pc'[t] = "new_test")
            => (lock = NoThread /\ lock' = t /\ count' = count)
       /\ Leaves(t, "new_test")
            => /\ lock = t /\ lock' = t
               /\ count' = (IF count = 0 THEN 1 ELSE count + 1)
               /\ pc'[t] = (IF count = 0 THEN "new_open" ELSE "new_fd")
               /\ hist'.opens = hist.opens /\ held' = held
       /\ (pc[t] = "new_open" /\ pc'[t] = "new_fd")
            => /\ lock = t /\ lock' = t
               /\ count = 1 /\ count' = 1
               /\ hist'.opens = hist.opens + 1 /\ sessOpen'
               /\ held' = held
       /\ (pc[t] = "new_fd" /\ held'[t] # held[t])
            => /\ lock = t /\ lock' = NoThread
               /\ pc'[t] = "idle"
               /\ count' = count /\ sessOpen
               /\ held'[t] = Append(held[t], sessFd)]_vars

\* the first new of the run has returned its Connection: session opened
\* once, count 1, lock released
C16_Witness ==
  /\ CallsMade = 1 /\ hist.opens = 1 /\ ~hist.failed
  /\ count = 1 /\ sessOpen /\ lock = NoThread
  /\ \E t \in Threads : held[t] = <<sessFd>> /\ pc[t] = "idle"

(* ------------------------------- C17 ---------------------------------- *)
RECURSIVE HeldUpTo(_)
HeldUpTo(n) == IF n = 0 THEN 0 ELSE Len(held[n]) + HeldUpTo(n - 1)

\* the Connection values that are live, or in a drop that has not yet
\* updated the count
LiveOrDropping ==
  HeldUpTo(NThreads) + Cardinality({t \in Threads : pc[t] = "drop_test"})

\* C17: the count is at least the number of Connection values not yet
\* accounted for by a drop, so a drop never finds the count at 0.
C17_CountCoversHandles ==
  /\ count >= LiveOrDropping
  /\ \A t \in Threads : pc[t] = "drop_test" => count >= 1

\* after a failed new, the only Connection is being dropped and finds the
\* count at 2
C17_Witness ==
  /\ hist.failed /\ NoLiveHandle
  /\ \E t \in Threads : pc[t] = "drop_test"
  /\ count = 2

(* ------------------------------- C18 ---------------------------------- *)
\* C18: the transport close is only called when no Connection value is live
\* (the one being dropped was the last), and a step that closes the session
\* is made with none live.
C18_CloseOnlyByLast ==
  /\ \A t \in Threads : pc[t] = "drop_close" => (NoLiveHandle /\ count = 0)
  /\ (hist.closes > 0 /\ ~sessOpen) => NoLiveHandle

\* every thread had a Connection; the last of them is at its close call
C18_Witness ==
  /\ \E t \in Threads : pc[t] = "drop_close"
  /\ \A t \in Threads : calls[t] >= 1
  /\ ~hist.failed /\ hist.opens = 1 /\ hist.closes = 0

(* ------------------------------- C19 ---------------------------------- *)
\* C19: the lock is held from the count update to the descriptor fetch, and
\* every live Connection holds the descriptor of the session that is open.
C19_HandlesHoldSessionFd ==
  /\ \A t \in Threads : pc[t] \in {"new_open", "new_fd"} => lock = t
  /\ \A t \in Threads : \A i \in 1..Len(held[t]) :
       sessOpen /\ held[t][i] = sessFd

\* the session was closed and opened again, and every thread now holds a
\* Connection of the second session
C19_Witness ==
  /\ hist.opens = 2 /\ hist.closes = 1 /\ ~hist.failed
  /\ \A t \in Threads : Len(held[t]) = 1 /\ pc[t] = "idle"

(* ------------------------------- C20 ---------------------------------- *)
\* C20: the failing close is made with the count already 0 and the lock
\* held, and poisons the lock; once the lock is poisoned it stays poisoned,
\* the count stays 0, no open is called, no Connection appears, and a thread
\* that calls new panics.
C20_PoisonedForGood ==
  [][/\ \A t \in Threads :
          (Leaves(t, "drop_close") /\ hist'.closeFailed)
            => (count = 0 /\ lock = t /\ poisoned' /\ lock' = NoThread)
     /\ poisoned =>
          /\ poisoned' /\ hist.closeFailed
          /\ count = 0 /\ count' = 0
          /\ lock = NoThread /\ lock' = NoThread
          /\ hist'.opens = hist.opens
          /\ NoLiveHandle /\ held' = held
          /\ \A t \in Threads :
               /\ pc'[t] \in {pc[t], "panicked"}
               /\ calls'[t] # calls[t] => pc'[t] = "panicked"]_vars

\* the close failed in one thread's drop, and the other thread's new has
\* panicked on the poisoned lock
C20_Witness ==
  /\ poisoned /\ count = 0
  /\ \A t \in Threads : pc[t] = "panicked"
  /\ hist.opens = 1 /\ hist.closes = 1
  /\ CallsMade >= 2

====
